---- MODULE Spec2Model ----
(***************************************************************************)
(* Model of robusta's Slack sender                                         *)
(* (src/src/robusta/integrations/slack/sender.py).                         *)
(*                                                                         *)
(* Python str values are TLA+ strings, lists are sequences, dicts with a   *)
(* significant order are sequences of entries, Slack elements are records. *)
(* A function that may raise returns [exc, out, log, seen]: exc is "none"  *)
(* or the exception raised, out the value returned, log the records        *)
(* written with logging.error, seen the blocks to_slack was invoked on.    *)
(***************************************************************************)
EXTENDS Integers, Sequences, FiniteSets, TLC

VARIABLES
    report,            \* the BaseEvent handed to send_to_slack
    registry,          \* callbacks for which is_callback_in_registry is true
    pc,                \* position of the one dispatch
    file_blocks,       \* send_to_slack: file_blocks
    uploaded_files,    \* prepare_slack_text: uploaded_files
    message,           \* send_to_slack: message
    output_blocks,     \* send_to_slack: output_blocks
    attachment_blocks, \* send_to_slack: attachment_blocks
    calls,             \* calls made on slack_client, in order
    log,               \* records written with logging.error
    to_slack_calls,    \* blocks to_slack was invoked on, in order
    error,             \* the exception that left send_to_slack, or "none"
    call,              \* unit runs: the function applied and its arguments
    result             \* unit runs: what it returned

vars == <<report, registry, pc, file_blocks, uploaded_files, message,
          output_blocks, attachment_blocks, calls, log, to_slack_calls,
          error, call, result>>

sendVars == <<report, registry, pc, file_blocks, uploaded_files, message,
              output_blocks, attachment_blocks, calls, log, to_slack_calls,
              error>>

\* ------------------------------------------------------------------ bounds
MaxBlocks == 2      \* blocks of one report, body and attachments together
MaxChoices == 2     \* entries of one choice map (unit runs)
MaxLen == 5         \* length of the texts given to apply_length_limit
MaxLimit == 6       \* largest max_length given to apply_length_limit

\* ---------------------------------------------------------- program values
ACTION_TRIGGER_PLAYBOOK == "trigger_playbook"
TARGET_ID == "target-1"
BodyMaxLength == 3000
HeaderMaxLength == 150
None == "None"
truncator == "..."
EmptyMessage == "empty-message"

\* ------------------------------------------------------------ str helpers
Min(a, b) == IF a < b THEN a ELSE b
Max(a, b) == IF a > b THEN a ELSE b

\* msg[:k] of Python: a negative k counts from the end
SlicePrefix(msg, k) ==
    IF k >= 0 THEN SubSeq(msg, 1, Min(k, Len(msg)))
    ELSE SubSeq(msg, 1, Max(0, Len(msg) + k))

RECURSIVE Repeat(_, _)
Repeat(c, n) ==
    IF n = 0 THEN ""
    ELSE LET h == Repeat(c, n \div 2)
         IN h \o h \o (IF n % 2 = 1 THEN c ELSE "")

\* str(i) for i >= 0, as the f-string formats it
RECURSIVE IntToStr(_)
IntToStr(i) ==
    IF i < 10 THEN SubSeq("0123456789", i + 1, i + 1)
    ELSE IntToStr(i \div 10) \o SubSeq("0123456789", (i % 10) + 1, (i % 10) + 1)

\* sep.join(parts)
RECURSIVE Join(_, _)
Join(sep, parts) ==
    IF parts = <<>> THEN ""
    ELSE IF Len(parts) = 1 THEN parts[1]
    ELSE parts[1] \o sep \o Join(sep, Tail(parts))

\* needle in text
Contains(text, needle) ==
    \E i \in 1..(Len(text) - Len(needle) + 1) :
        SubSeq(text, i, i + Len(needle) - 1) = needle

EndsWith(text, suffix) ==
    /\ Len(text) >= Len(suffix)
    /\ SubSeq(text, Len(text) - Len(suffix) + 1, Len(text)) = suffix

\* -------------------------------------------------------- results, raises
Ok(out, logged, seen) == [exc |-> "none", out |-> out, log |-> logged, seen |-> seen]
Raise(e, logged, seen) == [exc |-> e, out |-> <<>>, log |-> logged, seen |-> seen]

\* ------------------------------------------------------------- the blocks
MarkdownBlock(text) == [type |-> "markdown", text |-> text]
DividerBlock == [type |-> "divider"]
HeaderBlock(text) == [type |-> "header", text |-> text]
FileBlock(filename) == [type |-> "file", filename |-> filename]
ListBlock(rendering) == [type |-> "list", rendering |-> rendering]
TableBlock(rendering) == [type |-> "table", rendering |-> rendering]
CallbackBlock(choices, context) ==
    [type |-> "callback", choices |-> choices, context |-> context]
UnknownBlock == [type |-> "unknown"]

\* Optional[Dict[str, Callable]]: None, or the entries in iteration order
NoChoices == [none |-> TRUE, items |-> <<>>]
Choices(items) == [none |-> FALSE, items |-> items]
Choice(text, callback) == [text |-> text, callback |-> callback]

isinstance(block, type) == block.type = type

\* ListBlock.to_markdown / TableBlock.to_markdown: one Markdown rendering
to_markdown(block) == MarkdownBlock(block.rendering)

\* callback_registry.is_callback_in_registry(callback)
is_callback_in_registry(reg, callback) == callback \in reg

\* block.context.copy(); context["target_id"] = TARGET_ID; json.dumps(context)
context_with_target(context) ==
    [k \in (DOMAIN context) \cup {"target_id"} |->
        IF k = "target_id" THEN TARGET_ID ELSE context[k]]

json_dumps(obj) == [json |-> obj]

\* PlaybookCallbackRequest.create_for_func(callback, context).json()
create_for_func(callback, context) ==
    json_dumps([func_name |-> callback, context |-> context])

\* variant: the marker is appended without making room for it
apply_length_limit_no_room(msg, max_length) ==
    IF Len(msg) <= max_length THEN msg
    ELSE SlicePrefix(msg, max_length) \o truncator

\* ------------------------------------------------------ sender.py:73-77
apply_length_limit(msg, max_length) ==
    IF Len(msg) <= max_length THEN msg
    ELSE SlicePrefix(msg, max_length - Len(truncator)) \o truncator

\* variant: the action identifiers are numbered from 1
button_numbered_from_one(i, text, callback, context) ==
    [type |-> "button",
     text |-> [type |-> "plain_text", text |-> text],
     style |-> "primary",
     action_id |-> ACTION_TRIGGER_PLAYBOOK \o "_" \o IntToStr(i + 1),
     value |-> create_for_func(callback, context)]

\* ------------------------------------------------------ sender.py:39-70
button(i, text, callback, context) ==
    [type |-> "button",
     text |-> [type |-> "plain_text", text |-> text],
     style |-> "primary",
     action_id |-> ACTION_TRIGGER_PLAYBOOK \o "_" \o IntToStr(i),
     value |-> create_for_func(callback, context)]

\* the for loop of get_action_block_for_choices, at entry i (0-based)
RECURSIVE choices_loop(_, _, _, _, _)
choices_loop(items, context, reg, i, buttons) ==
    IF i >= Len(items) THEN Ok(<<[type |-> "actions", elements |-> buttons]>>, <<>>, <<>>)
    ELSE LET text == items[i + 1].text
             callback == items[i + 1].callback
         IN IF callback = None
            THEN Raise("callback is None", <<>>, <<>>)
            ELSE IF ~is_callback_in_registry(reg, callback)
            THEN Raise("callback not registered", <<>>, <<>>)
            ELSE choices_loop(items, context, reg, i + 1,
                              Append(buttons, button(i, text, callback, context)))

get_action_block_for_choices(choices, context, reg) ==
    IF choices.none THEN Ok(<<>>, <<>>, <<>>)
    ELSE choices_loop(choices.items, context, reg, 0, <<>>)

\* ----------------------------------------------------- sender.py:83-118
markdown_to_slack(block) ==
    IF block.text = "" THEN <<>>
    ELSE <<[type |-> "section",
            text |-> [type |-> "mrkdwn",
                      text |-> apply_length_limit(block.text, BodyMaxLength)]]>>

header_to_slack(block) ==
    <<[type |-> "header",
       text |-> [type |-> "plain_text",
                 text |-> apply_length_limit(block.text, HeaderMaxLength)]]>>

to_slack(block, reg) ==
    LET r == IF isinstance(block, "markdown") THEN Ok(markdown_to_slack(block), <<>>, <<>>)
             ELSE IF isinstance(block, "divider") THEN Ok(<<[type |-> "divider"]>>, <<>>, <<>>)
             ELSE IF isinstance(block, "file") THEN Raise("AssertionError", <<>>, <<>>)
             ELSE IF isinstance(block, "header") THEN Ok(header_to_slack(block), <<>>, <<>>)
             ELSE IF isinstance(block, "list") \/ isinstance(block, "table")
                  THEN Ok(markdown_to_slack(to_markdown(block)), <<>>, <<to_markdown(block)>>)
             ELSE IF isinstance(block, "callback")
                  THEN get_action_block_for_choices(
                           block.choices, json_dumps(context_with_target(block.context)), reg)
             ELSE Ok(<<>>, <<[level |-> "error", what |-> "cannot convert block",
                              type |-> block.type]>>, <<>>)
    IN [r EXCEPT !.seen = <<block>> \o r.seen]

\* for block in blocks: out.extend(to_slack(block)), left at the first raise
RECURSIVE extend_all(_, _, _)
extend_all(blocks, reg, acc) ==
    IF blocks = <<>> THEN acc
    ELSE LET r == to_slack(Head(blocks), reg)
         IN IF r.exc # "none"
            THEN [exc |-> r.exc, out |-> acc.out, log |-> acc.log \o r.log,
                  seen |-> acc.seen \o r.seen]
            ELSE extend_all(Tail(blocks), reg,
                            [exc |-> "none", out |-> acc.out \o r.out,
                             log |-> acc.log \o r.log, seen |-> acc.seen \o r.seen])

\* --------------------------------------------------- sender.py:121-129
\* the permalink the backend answers for an uploaded file
permalink_of(filename) == "https://files/" \o filename

file_reference(permalink, filename) == "* <" \o permalink \o " | " \o filename \o ">"

\* --------------------------------------------------- sender.py:132-155
mention_markers(mentions) == [i \in 1..Len(mentions) |-> "<@" \o mentions[i] \o ">"]

\* variant: an empty text is sent as it is
prepare_slack_text_no_placeholder(title, mentions, files, uploaded) ==
    LET mention_prefix == Join(" ", mention_markers(mentions))
        m1 == IF mention_prefix # "" THEN mention_prefix \o " " \o title ELSE title
        m2 == IF files # <<>> THEN m1 \o "\n" \o Join("\n", uploaded) ELSE m1
    IN apply_length_limit(m2, BodyMaxLength)

\* prepare_slack_text once every file is uploaded: uploaded is uploaded_files
prepare_slack_text(title, mentions, files, uploaded) ==
    LET mention_prefix == Join(" ", mention_markers(mentions))
        m1 == IF mention_prefix # "" THEN mention_prefix \o " " \o title ELSE title
        m2 == IF files # <<>> THEN m1 \o "\n" \o Join("\n", uploaded) ELSE m1
    IN IF Len(m2) = 0 THEN EmptyMessage
       ELSE apply_length_limit(m2, BodyMaxLength)

\* ------------------------------------- add_pngs_for_all_svgs (collaborator)
IsSvg(filename) == EndsWith(filename, ".svg")
PngName(filename) == SubSeq(filename, 1, Len(filename) - 4) \o ".png"

add_pngs_for_all_svgs(blocks) ==
    LET IsSvgBlock(b) == IsSvg(b.filename)
        svgs == SelectSeq(blocks, IsSvgBlock)
    IN blocks \o [i \in 1..Len(svgs) |-> FileBlock(PngName(svgs[i].filename))]

\* variant: the branch is taken on the report's attachment blocks
post_kwargs_by_attachment_list(event, text, blocks, attachments) ==
    IF event.report_attachment_blocks # <<>>
    THEN [op |-> "chat_postMessage", channel |-> event.slack_channel, text |-> text,
          blocks |-> blocks, display_as_bot |-> TRUE,
          attachments |-> <<[blocks |-> attachments]>>,
          unfurl_links |-> event.slack_allow_unfurl,
          unfurl_media |-> event.slack_allow_unfurl]
    ELSE [op |-> "chat_postMessage", channel |-> event.slack_channel, text |-> text,
          blocks |-> blocks, display_as_bot |-> TRUE,
          unfurl_links |-> event.slack_allow_unfurl,
          unfurl_media |-> event.slack_allow_unfurl]

\* variant: the log record leaves the attachment elements out
post_failure_log_without_attachments(text, blocks, attachments) ==
    [level |-> "error", what |-> "error sending message to slack",
     text |-> text, blocks |-> blocks, attachment_blocks |-> <<>>]

\* --------------------------------------------------- sender.py:183-206
\* the keyword arguments of the one chat_postMessage call
post_kwargs(event, text, blocks, attachments) ==
    IF attachments # <<>>
    THEN [op |-> "chat_postMessage", channel |-> event.slack_channel, text |-> text,
          blocks |-> blocks, display_as_bot |-> TRUE,
          attachments |-> <<[blocks |-> attachments]>>,
          unfurl_links |-> event.slack_allow_unfurl,
          unfurl_media |-> event.slack_allow_unfurl]
    ELSE [op |-> "chat_postMessage", channel |-> event.slack_channel, text |-> text,
          blocks |-> blocks, display_as_bot |-> TRUE,
          unfurl_links |-> event.slack_allow_unfurl,
          unfurl_media |-> event.slack_allow_unfurl]

\* the logging.error of the except branch
post_failure_log(text, blocks, attachments) ==
    [level |-> "error", what |-> "error sending message to slack",
     text |-> text, blocks |-> blocks, attachment_blocks |-> attachments]

\* ------------------------------------------------------------ the inputs
SeqsUpTo(S, n) == UNION {[1..k -> S] : k \in 0..n}

Registered == {"cb1", "cb2"}
Callables == Registered \cup {"cb3", None}

Titles == {"", "Build failed", Repeat("t", BodyMaxLength + 1)}
MentionLists == {<<>>, <<"U1">>, <<"U1", "U2">>}

ReportBlocks ==
    {MarkdownBlock(""), MarkdownBlock("pod crashed"),
     DividerBlock, ListBlock("* a"),
     FileBlock("log.txt"), FileBlock("graph.svg"),
     CallbackBlock(Choices(<<Choice("restart", "cb1"), Choice("ignore", "cb2")>>), <<>>),
     CallbackBlock(Choices(<<Choice("restart", None)>>), <<>>),
     CallbackBlock(Choices(<<Choice("restart", "cb3")>>), <<>>),
     UnknownBlock}

\* body blocks and attachment blocks of one report: MaxBlocks blocks at most
BlockLists ==
    UNION {{<<b, a>> : b \in [1..k -> ReportBlocks],
                       a \in SeqsUpTo(ReportBlocks, MaxBlocks - k)} : k \in 0..MaxBlocks}

Reports ==
    {[report_title |-> t, report_title_hidden |-> h, report_blocks |-> ba[1],
      report_attachment_blocks |-> ba[2], slack_mentions |-> m,
      slack_channel |-> "#alerts", slack_allow_unfurl |-> TRUE] :
        t \in Titles, h \in BOOLEAN, m \in MentionLists, ba \in BlockLists}

NoReport ==
    [report_title |-> "", report_title_hidden |-> FALSE, report_blocks |-> <<>>,
     report_attachment_blocks |-> <<>>, slack_mentions |-> <<>>,
     slack_channel |-> "#alerts", slack_allow_unfurl |-> TRUE]

NoCall == [fn |-> "none"]
Pending == [done |-> FALSE]

\* ------------------------------------------------------- the dispatch
Init ==
    /\ report \in Reports
    /\ registry = Registered
    /\ pc = "idle"
    /\ file_blocks = <<>>
    /\ uploaded_files = <<>>
    /\ message = ""
    /\ output_blocks = <<>>
    /\ attachment_blocks = <<>>
    /\ calls = <<>>
    /\ log = <<>>
    /\ to_slack_calls = <<>>
    /\ error = "none"
    /\ call = NoCall
    /\ result = Pending

IsFileBlock(b) == isinstance(b, "file")
IsOtherBlock(b) == ~isinstance(b, "file")

\* sender.py:158-164, up to the first upload of prepare_slack_text
send_to_slack_begin ==
    /\ pc = "idle"
    /\ file_blocks' = add_pngs_for_all_svgs(SelectSeq(report.report_blocks, IsFileBlock))
    /\ pc' = "prepare_slack_text"
    /\ UNCHANGED <<report, registry, uploaded_files, message, output_blocks,
                   attachment_blocks, calls, log, to_slack_calls, error, call, result>>

upload_call(block, ok) ==
    [op |-> "files_upload", title |-> block.filename, filename |-> block.filename,
     ok |-> ok]

\* sender.py:145-147 with 121-129: the next file is uploaded
files_upload_returns ==
    /\ pc = "prepare_slack_text"
    /\ Len(uploaded_files) < Len(file_blocks)
    /\ LET file_block == file_blocks[Len(uploaded_files) + 1]
       IN /\ calls' = Append(calls, upload_call(file_block, TRUE))
          /\ uploaded_files' =
                Append(uploaded_files,
                       file_reference(permalink_of(file_block.filename),
                                      file_block.filename))
    /\ UNCHANGED <<report, registry, pc, file_blocks, message, output_blocks,
                   attachment_blocks, log, to_slack_calls, error, call, result>>

\* variant: a failed upload is skipped and the dispatch goes on
files_upload_raises_and_is_skipped ==
    /\ pc = "prepare_slack_text"
    /\ Len(uploaded_files) < Len(file_blocks)
    /\ calls' = Append(calls, upload_call(file_blocks[Len(uploaded_files) + 1], FALSE))
    /\ uploaded_files' = Append(uploaded_files, "")
    /\ UNCHANGED <<report, registry, pc, file_blocks, message, output_blocks,
                   attachment_blocks, log, to_slack_calls, error, call, result>>

\* sender.py:126-128 raises: nothing catches it before send_to_slack's caller
files_upload_raises ==
    /\ pc = "prepare_slack_text"
    /\ Len(uploaded_files) < Len(file_blocks)
    /\ calls' = Append(calls, upload_call(file_blocks[Len(uploaded_files) + 1], FALSE))
    /\ pc' = "raised"
    /\ error' = "files_upload failed"
    /\ UNCHANGED <<report, registry, file_blocks, uploaded_files, message,
                   output_blocks, attachment_blocks, log, to_slack_calls, call, result>>

\* sender.py:166-173: header, body blocks, attachment blocks, in this order
translate_report(event, reg) ==
    LET other_blocks == SelectSeq(event.report_blocks, IsOtherBlock)
        start == Ok(<<>>, <<>>, <<>>)
        head == IF ~event.report_title_hidden /\ event.report_title # ""
                THEN extend_all(<<HeaderBlock(event.report_title)>>, reg, start)
                ELSE start
        body == extend_all(other_blocks, reg, head)
        att == IF body.exc # "none" THEN [start EXCEPT !.exc = body.exc]
               ELSE extend_all(event.report_attachment_blocks, reg, start)
    IN [exc |-> att.exc, output_blocks |-> body.out, attachment_blocks |-> att.out,
        log |-> body.log \o att.log, seen |-> body.seen \o att.seen]

\* sender.py:149-155 and 166-181: the text is finished, the blocks translated
compose ==
    /\ pc = "prepare_slack_text"
    /\ Len(uploaded_files) = Len(file_blocks)
    /\ LET t == translate_report(report, registry)
       IN /\ message' = prepare_slack_text(report.report_title, report.slack_mentions,
                                           file_blocks, uploaded_files)
          /\ output_blocks' = t.output_blocks
          /\ attachment_blocks' = t.attachment_blocks
          /\ log' = log \o t.log
          /\ to_slack_calls' = t.seen
          /\ error' = t.exc
          /\ pc' = IF t.exc = "none" THEN "chat_postMessage" ELSE "raised"
    /\ UNCHANGED <<report, registry, file_blocks, uploaded_files, calls, call, result>>

\* sender.py:183-202: the backend accepts the message
chat_postMessage_returns ==
    /\ pc = "chat_postMessage"
    /\ calls' = Append(calls, post_kwargs(report, message, output_blocks, attachment_blocks)
                                 @@ [ok |-> TRUE])
    /\ pc' = "returned"
    /\ UNCHANGED <<report, registry, file_blocks, uploaded_files, message,
                   output_blocks, attachment_blocks, log, to_slack_calls, error,
                   call, result>>

\* variant: no except branch, the backend's error leaves send_to_slack
chat_postMessage_raises_uncaught ==
    /\ pc = "chat_postMessage"
    /\ calls' = Append(calls, post_kwargs(report, message, output_blocks, attachment_blocks)
                                 @@ [ok |-> FALSE])
    /\ pc' = "raised"
    /\ error' = "chat_postMessage failed"
    /\ UNCHANGED <<report, registry, file_blocks, uploaded_files, message,
                   output_blocks, attachment_blocks, log, to_slack_calls, call, result>>

\* sender.py:203-206: the backend call raises, the except branch logs
chat_postMessage_raises ==
    /\ pc = "chat_postMessage"
    /\ calls' = Append(calls, post_kwargs(report, message, output_blocks, attachment_blocks)
                                 @@ [ok |-> FALSE])
    /\ log' = Append(log, post_failure_log(message, output_blocks, attachment_blocks))
    /\ pc' = "returned"
    /\ UNCHANGED <<report, registry, file_blocks, uploaded_files, message,
                   output_blocks, attachment_blocks, to_slack_calls, error, call, result>>

Next ==
    \/ send_to_slack_begin
    \/ files_upload_returns
    \/ files_upload_raises
    \/ compose
    \/ chat_postMessage_returns
    \/ chat_postMessage_raises

Spec == Init /\ [][Next]_vars

\* ------------------------------------------- unit runs: apply_length_limit
Chars == {"a", "b"}
Texts == {Join("", cs) : cs \in SeqsUpTo(Chars, MaxLen)}

IdleSend ==
    /\ report = NoReport
    /\ registry = Registered
    /\ pc = "unit"
    /\ file_blocks = <<>>
    /\ uploaded_files = <<>>
    /\ message = ""
    /\ output_blocks = <<>>
    /\ attachment_blocks = <<>>
    /\ calls = <<>>
    /\ log = <<>>
    /\ to_slack_calls = <<>>
    /\ error = "none"

InitLimit ==
    /\ IdleSend
    /\ call \in {[fn |-> "apply_length_limit", msg |-> t, max_length |-> l] :
                    t \in Texts, l \in 0..MaxLimit}
    /\ result = Pending

run_apply_length_limit ==
    /\ call.fn = "apply_length_limit"
    /\ ~result.done
    /\ result' = [done |-> TRUE, value |-> apply_length_limit(call.msg, call.max_length)]
    /\ UNCHANGED <<sendVars, call>>

NextLimit == run_apply_length_limit

SpecLimit == InitLimit /\ [][NextLimit]_vars

\* ----------------------------------------------------- unit runs: to_slack
Labels == {"restart", "ignore", "silence"}

\* the choice maps of at most MaxChoices entries: labels are the keys of a dict
ChoiceMaps ==
    {cs \in SeqsUpTo([text : Labels, callback : Callables], MaxChoices) :
        \A i, j \in 1..Len(cs) : cs[i].text = cs[j].text => i = j}

Contexts == {<<>>, [namespace |-> "default"]}

UnitBlocks ==
    {MarkdownBlock(t) : t \in {"", "pod crashed", Repeat("m", BodyMaxLength + 1)}}
    \cup {HeaderBlock(t) : t \in {"", "Build failed", Repeat("h", HeaderMaxLength + 1)}}
    \cup {ListBlock(t) : t \in {"", "* a"}}
    \cup {TableBlock(t) : t \in {"", "| a |"}}
    \cup {DividerBlock, FileBlock("log.txt"), UnknownBlock}
    \cup {CallbackBlock(NoChoices, c) : c \in Contexts}
    \cup {CallbackBlock(Choices(cs), c) : cs \in ChoiceMaps, c \in Contexts}

InitTranslate ==
    /\ IdleSend
    /\ call \in {[fn |-> "to_slack", block |-> b] : b \in UnitBlocks}
    /\ result = Pending

run_to_slack ==
    /\ call.fn = "to_slack"
    /\ ~result.done
    /\ result' = [done |-> TRUE, value |-> to_slack(call.block, registry)]
    /\ UNCHANGED <<sendVars, call>>

NextTranslate == run_to_slack

SpecTranslate == InitTranslate /\ [][NextTranslate]_vars

\* ================================================================ claims
IsPost(c) == c.op = "chat_postMessage"
IsUpload(c) == c.op = "files_upload"
PostCalls == {i \in DOMAIN calls : IsPost(calls[i])}
FailedUploads == {i \in DOMAIN calls : IsUpload(calls[i]) /\ ~calls[i].ok}
HasAttachments(c) == "attachments" \in DOMAIN c
Elems(s) == {s[i] : i \in DOMAIN s}

\* a Callback block holding an absent or unregistered callback
BadCallbackBlock(b) ==
    /\ b.type = "callback"
    /\ ~b.choices.none
    /\ \E i \in DOMAIN b.choices.items :
          \/ b.choices.items[i].callback = None
          \/ b.choices.items[i].callback \notin registry

CallbackErrors == {"callback is None", "callback not registered"}

\* C1 (as stated): send_to_slack never raises, whatever the report, the
\* backend and the registry do.
C1_SendNeverRaises == pc # "raised"

\* C1 (amended): send_to_slack raises only while composing, that is when an
\* upload failed, a Callback block holds an absent or unregistered callback, or
\* an attachment block is a File block, and then no chat_postMessage call was
\* made; once chat_postMessage is called, send_to_slack returns normally.
C1_RaisesOnlyWhileComposing ==
    /\ pc = "raised" =>
          /\ PostCalls = {}
          /\ \/ FailedUploads # {}
             \/ \E b \in Elems(report.report_blocks) : BadCallbackBlock(b)
             \/ \E b \in Elems(report.report_attachment_blocks) :
                   BadCallbackBlock(b) \/ b.type = "file"
    /\ PostCalls # {} => pc = "returned" /\ error = "none"

C1_Witness ==
    /\ pc = "raised"
    /\ error \in CallbackErrors
    /\ FailedUploads = {}

\* C2: when composition succeeded and chat_postMessage raises, send_to_slack
\* returns normally and the last log record carries the text, the body elements
\* and the attachment elements of the attempted call, on both submission paths.
C2_PostFailureLogged ==
    \A i \in PostCalls :
        ~calls[i].ok =>
            /\ pc = "returned"
            /\ error = "none"
            /\ log # <<>>
            /\ LET l == log[Len(log)]
               IN /\ l.level = "error"
                  /\ l.text = calls[i].text
                  /\ l.blocks = calls[i].blocks
                  /\ l.attachment_blocks =
                        (IF HasAttachments(calls[i]) THEN calls[i].attachments[1].blocks
                         ELSE <<>>)

C2_Witness ==
    \E i \in PostCalls :
        /\ ~calls[i].ok
        /\ HasAttachments(calls[i])
        /\ calls[i].blocks # <<>>
        /\ pc = "returned"

LimitContract(t, L, r) ==
    /\ Len(r) <= L
    /\ Len(t) <= L => r = t
    /\ Len(t) > L => Len(r) = L /\ EndsWith(r, "...")

\* C3 (as stated): for every text t and every limit L, limits below the
\* marker's length included, the result is at most L long, is t when t fits, and
\* is exactly L long and ends with the marker when t does not fit.
C3_LimitForEveryL ==
    result.done => LimitContract(call.msg, call.max_length, result.value)

\* C3 (amended): the same, for every limit L that is at least the marker's
\* length 3.
C3_LimitFromMarkerLength ==
    (result.done /\ call.max_length >= 3) =>
        LimitContract(call.msg, call.max_length, result.value)

C3_Witness ==
    /\ result.done
    /\ call.max_length >= 3
    /\ Len(call.msg) > call.max_length
    /\ Len(result.value) = call.max_length

\* C4: to_slack is never invoked on a File block, whether the block sits in
\* the body blocks or in the attachment blocks.
C4_NoFileBlockTranslated ==
    \A i \in DOMAIN to_slack_calls : to_slack_calls[i].type # "file"

\* C5: a dispatch that fails on an absent or unregistered callback has made no
\* call to the backend before: no upload, no chat_postMessage.
C5_CallbackFailsBeforeAnyCall ==
    (pc = "raised" /\ error \in CallbackErrors) => calls = <<>>

\* C6: once an upload of the report has failed, the dispatch is aborted and no
\* chat_postMessage call is made, however many files were uploaded before.
C6_UploadFailureAborts ==
    FailedUploads # {} =>
        /\ pc = "raised"
        /\ error = "files_upload failed"
        /\ PostCalls = {}

C6_Witness ==
    /\ pc = "raised"
    /\ Len(calls) >= 2
    /\ calls[1].ok
    /\ ~calls[Len(calls)].ok

\* C7 (as stated): the chat_postMessage call carries a non-empty attachments
\* field when the report's attachment-block list is non-empty, and no
\* attachments field when the list is empty.
C7_AttachmentsFollowBlockList ==
    \A i \in PostCalls :
        IF report.report_attachment_blocks # <<>>
        THEN HasAttachments(calls[i]) /\ calls[i].attachments # <<>>
        ELSE ~HasAttachments(calls[i])

\* an attachment block that translates to at least one element
YieldsElements(b) ==
    \/ b.type \in {"divider", "header"}
    \/ b.type = "markdown" /\ b.text # ""
    \/ b.type \in {"list", "table"} /\ b.rendering # ""
    \/ b.type = "callback" /\ ~b.choices.none

\* C7 (amended): the chat_postMessage call carries an attachments field, one
\* section wrapping a non-empty element sequence, exactly when some attachment
\* block translates to at least one element; with an empty attachment-block
\* list, or one whose blocks all translate to nothing, it carries no field.
C7_AttachmentsFollowElements ==
    \A i \in PostCalls :
        /\ HasAttachments(calls[i]) <=>
              \E b \in Elems(report.report_attachment_blocks) : YieldsElements(b)
        /\ HasAttachments(calls[i]) =>
              /\ Len(calls[i].attachments) = 1
              /\ calls[i].attachments[1].blocks # <<>>
        /\ report.report_attachment_blocks = <<>> => ~HasAttachments(calls[i])

C7_Witness ==
    \E i \in PostCalls :
        /\ report.report_attachment_blocks # <<>>
        /\ ~HasAttachments(calls[i])

\* C8: the text of every submitted message is non-empty, and a report with an
\* empty title, no mentions and no files is sent with the text "empty-message".
C8_TextNeverEmpty ==
    \A i \in PostCalls :
        /\ calls[i].text # ""
        /\ (/\ report.report_title = ""
            /\ report.slack_mentions = <<>>
            /\ \A b \in Elems(report.report_blocks) : b.type # "file")
           => calls[i].text = "empty-message"

C8_Witness ==
    \E i \in PostCalls :
        /\ report.report_title = ""
        /\ report.slack_mentions = <<>>
        /\ calls[i].text = "empty-message"

ExpectedActionIds ==
    <<"trigger_playbook_0", "trigger_playbook_1", "trigger_playbook_2">>

AllRegistered(b) ==
    /\ b.type = "callback"
    /\ ~b.choices.none
    /\ \A i \in DOMAIN b.choices.items : b.choices.items[i].callback \in registry

\* C9: a Callback block whose n callbacks are all registered translates to one
\* "actions" element of n buttons, the i-th (from 0) carrying the i-th label,
\* the identifier trigger_playbook_i and the token of the i-th callback.
C9_ButtonsFollowChoices ==
    (result.done /\ call.fn = "to_slack" /\ AllRegistered(call.block)) =>
        LET items == call.block.choices.items
            r == result.value
        IN /\ r.exc = "none"
           /\ Len(r.out) = 1
           /\ r.out[1].type = "actions"
           /\ Len(r.out[1].elements) = Len(items)
           /\ \A i \in DOMAIN items :
                 LET b == r.out[1].elements[i]
                 IN /\ b.type = "button"
                    /\ b.text.text = items[i].text
                    /\ b.action_id = ExpectedActionIds[i]
                    /\ b.value.json.func_name = items[i].callback
                    /\ b.value.json.context.json["target_id"] = TARGET_ID
                    /\ \A k \in DOMAIN call.block.context :
                          b.value.json.context.json[k] = call.block.context[k]

C9_Witness ==
    /\ result.done
    /\ call.fn = "to_slack"
    /\ AllRegistered(call.block)
    /\ Len(call.block.choices.items) = 2
    /\ Len(result.value.out[1].elements) = 2

\* C10: a submitted message has no element for a File block in its blocks, and
\* its text contains the reference "* <permalink | filename>" of every File
\* block of the body, for every title and mention list.
C10_FileReferenceInText ==
    \A i \in PostCalls :
        /\ \A e \in Elems(calls[i].blocks) : e.type # "file"
        /\ \A b \in Elems(report.report_blocks) :
              b.type = "file" =>
                  Contains(calls[i].text,
                           "* <" \o permalink_of(b.filename) \o " | " \o b.filename \o ">")

====
